---------------------------- MODULE Spec2Model ----------------------------
(***************************************************************************)
(* Model of opal/util/convert-help-files-to-c-code.py: the build-time      *)
(* generator that walks a source tree for help-*.txt files, parses them as *)
(* a sections-only INI dialect, renders a C lookup table and writes it to  *)
(* the output path unless the file already holds the same text.            *)
(*                                                                         *)
(* Text is a sequence of one-character strings.  A file is a sequence of   *)
(* lines, each line given without its line terminator.  A path is a record *)
(* [dir, file]: the directory components and the base name.                *)
(***************************************************************************)
EXTENDS Naturals, Sequences, FiniteSets

(***************************************************************************)
(* Bounds of the model.                                                    *)
(***************************************************************************)
MaxLines == 3
MaxRuns == 2

(***************************************************************************)
(* Characters.                                                             *)
(***************************************************************************)
QUOTE == "\""
BSLASH == "\\"
NL == "\n"
SPACE == " "

Whitespace == {SPACE, NL, "\t"}

(***************************************************************************)
(* str methods used by the script.                                         *)
(***************************************************************************)
StartsWith(s, p) ==
    /\ Len(s) >= Len(p)
    /\ SubSeq(s, 1, Len(p)) = p

EndsWith(s, p) ==
    /\ Len(s) >= Len(p)
    /\ SubSeq(s, Len(s) - Len(p) + 1, Len(s)) = p

RECURSIVE LStrip(_)
LStrip(s) ==
    IF s # <<>> /\ Head(s) \in Whitespace THEN LStrip(Tail(s)) ELSE s

RECURSIVE RStrip(_)
RStrip(s) ==
    IF s # <<>> /\ s[Len(s)] \in Whitespace
    THEN RStrip(SubSeq(s, 1, Len(s) - 1))
    ELSE s

Strip(s) == RStrip(LStrip(s))

\* s.replace(c, r) for a one-character pattern c
RECURSIVE Replace(_, _, _)
Replace(s, c, r) ==
    IF s = <<>> THEN <<>>
    ELSE (IF Head(s) = c THEN r ELSE <<Head(s)>>) \o Replace(Tail(s), c, r)

\* sep.join(list)
RECURSIVE Join(_, _)
Join(sep, list) ==
    IF list = <<>> THEN <<>>
    ELSE IF Len(list) = 1 THEN list[1]
    ELSE list[1] \o sep \o Join(sep, Tail(list))

(***************************************************************************)
(* A Python dict: a sequence of [key, val] entries with distinct keys, in  *)
(* insertion order.  Assigning to a key that is present replaces its value *)
(* where it stands; assigning to a new key appends an entry.               *)
(***************************************************************************)
DictHas(d, k) == \E i \in 1..Len(d) : d[i].key = k

DictGet(d, k) == d[CHOOSE i \in 1..Len(d) : d[i].key = k].val

DictSetKeepFirst(d, k, v) ==
    IF DictHas(d, k) THEN d ELSE Append(d, [key |-> k, val |-> v])

DictSet(d, k, v) ==
    IF DictHas(d, k)
    THEN [i \in 1..Len(d) |-> IF d[i].key = k THEN [key |-> k, val |-> v] ELSE d[i]]
    ELSE Append(d, [key |-> k, val |-> v])

(***************************************************************************)
(* parse_ini_files, the body of the loop over one file's lines.  The loop  *)
(* state is [current_section, sections]; current_section is <<>> for None  *)
(* and <<name>> for a section name.                                        *)
(***************************************************************************)
ParseStart == [current_section |-> <<>>, sections |-> <<>>]

IsSkipped(line) == StartsWith(line, <<"#">>) \/ line = <<>>

IsHeader(line) == StartsWith(line, <<"[">>) /\ EndsWith(line, <<"]">>)

HeaderName(line) == SubSeq(line, 2, Len(line) - 1)

ParseLineOrphans(st, raw) ==
    LET line == Strip(raw) IN
    IF IsSkipped(line) THEN st
    ELSE IF IsHeader(line)
    THEN [current_section |-> <<HeaderName(line)>>,
          sections |-> DictSet(st.sections, HeaderName(line), <<>>)]
    ELSE LET cur == IF st.current_section = <<>> THEN <<>> ELSE st.current_section[1]
             old == IF DictHas(st.sections, cur) THEN DictGet(st.sections, cur) ELSE <<>>
         IN [current_section |-> <<cur>>,
             sections |-> DictSet(st.sections, cur, Append(old, line))]

ParseLine(st, raw) ==
    LET line == Strip(raw) IN
    IF IsSkipped(line) THEN st
    ELSE IF IsHeader(line)
    THEN [current_section |-> <<HeaderName(line)>>,
          sections |-> DictSet(st.sections, HeaderName(line), <<>>)]
    ELSE IF st.current_section # <<>>
    THEN [st EXCEPT !.sections =
              DictSet(@, st.current_section[1],
                      Append(DictGet(@, st.current_section[1]), line))]
    ELSE st

RECURSIVE ParseLines(_, _)
ParseLines(st, lines) ==
    IF lines = <<>> THEN st ELSE ParseLines(ParseLine(st, Head(lines)), Tail(lines))

(***************************************************************************)
(* The directory tree that os.walk reads.  Directories are numbered; 0 is  *)
(* the place the tree hangs from.                                          *)
(*     src/  src/3rd-party/  src/3rd-party/pmix/  src/opal/  src/opal/.git/*)
(***************************************************************************)
DirIds == 1..5

DirName(d) ==
    CASE d = 1 -> "src"
      [] d = 2 -> "3rd-party"
      [] d = 3 -> "opal"
      [] d = 4 -> "pmix"
      [] d = 5 -> ".git"

DirParent(d) ==
    CASE d = 1 -> 0
      [] d = 2 -> 1
      [] d = 3 -> 1
      [] d = 4 -> 2
      [] d = 5 -> 3

RECURSIVE DirPath(_)
DirPath(d) == IF d = 0 THEN <<>> ELSE Append(DirPath(DirParent(d)), DirName(d))

SubDirs(d) == {c \in DirIds : DirParent(c) = d}

\* os.path.join(root_dir, file)
PathJoin(d, file) == [dir |-> DirPath(d), file |-> file]

\* os.path.basename(file_path)
Basename(path) == path.file

HelpA == <<"h", "e", "l", "p", "-", "a", ".", "t", "x", "t">>
HelpB == <<"h", "e", "l", "p", "-", "b", ".", "t", "x", "t">>
HelpC == <<"h", "e", "l", "p", "-", "a", ".", "c">>
NoteTxt == <<"n", "o", "t", "e", ".", "t", "x", "t">>

\* The orders in which scandir may hand out the members of S.
Orders(S) ==
    {o \in [1..Cardinality(S) -> S] : \A i, j \in 1..Cardinality(S) : o[i] = o[j] => i = j}

RECURSIVE SelectSeq2(_, _)
SelectSeq2(s, keep) ==
    IF s = <<>> THEN <<>>
    ELSE (IF Head(s) \in keep THEN <<Head(s)>> ELSE <<>>) \o SelectSeq2(Tail(s), keep)

(***************************************************************************)
(* find_help_files: the names skipped, the pruning of dirs in place, and   *)
(* the selection of the files of one directory.                            *)
(***************************************************************************)
skip_dirs == {".git", "3rd-party"}

PruneDirsNever(dirs) == dirs

PruneDirs(dirs) ==
    SelectSeq2(dirs, {d \in DirIds : DirName(d) \notin skip_dirs})

IsHelpFile(file) ==
    StartsWith(file, <<"h", "e", "l", "p", "-">>) /\ EndsWith(file, <<".", "t", "x", "t">>)

RECURSIVE FoundIn(_, _)
FoundIn(d, files) ==
    IF files = <<>> THEN <<>>
    ELSE (IF IsHelpFile(Head(files)) THEN <<PathJoin(d, Head(files))>> ELSE <<>>)
         \o FoundIn(d, Tail(files))

(***************************************************************************)
(* generate_c_code.  The generated text is kept as its parts: the name of  *)
(* the generating script, the ini_entries_<idx> arrays and the help_files  *)
(* table.  A C expression of a table is [null, text]: NULL, or the text    *)
(* the script puts between the two double quotes of a string literal (for  *)
(* the entries member of a file_entry, the array's identifier).  Two       *)
(* generated texts are equal exactly when their parts are.                 *)
(***************************************************************************)
Null == [null |-> TRUE, text |-> <<>>]

Lit(t) == [null |-> FALSE, text |-> t]

Digit(n) == <<"0", "1", "2", "3", "4", "5", "6", "7", "8", "9">>[n + 1]

\* f"ini_entries_{idx}"
IniArrayName(idx) == <<"ini_entries_", Digit(idx)>>

\* content.replace('"','\\"').replace("\n", '\\n"\n"')
CEscape(content) ==
    Replace(Replace(content, QUOTE, <<BSLASH, QUOTE>>),
            NL, <<BSLASH, "n", QUOTE, NL, QUOTE>>)

IniEntry(section, content_list) ==
    [section |-> Lit(section), content |-> Lit(CEscape(Join(<<NL>>, content_list)))]

IniSentinel == [section |-> Null, content |-> Null]

FileSentinel == [filename |-> Null, entries |-> Null]

IniEntries(sections) ==
    [j \in 1..Len(sections) |-> IniEntry(sections[j].key, sections[j].val)]
    \o <<IniSentinel>>

argv0 == "convert-help-files-to-c-code.py"

GenerateCCode(parsed_data) ==
    [argv0 |-> argv0,
     ini_arrays |->
        [i \in 1..Len(parsed_data) |->
            [name |-> IniArrayName(i - 1), entries |-> IniEntries(parsed_data[i].val)]],
     help_files |->
        [i \in 1..Len(parsed_data) |->
            [filename |-> Lit(parsed_data[i].key), entries |-> Lit(IniArrayName(i - 1))]]
        \o <<FileSentinel>>]

NoCode == [argv0 |-> "", ini_arrays |-> <<>>, help_files |-> <<>>]

\* What the output path held before the build, when it held something else.
StaleCode == [argv0 |-> "older build", ini_arrays |-> <<>>, help_files |-> <<FileSentinel>>]

(***************************************************************************)
(* The C compiler's reading of the text of adjacent string literals: the   *)
(* characters are concatenated, \n, \" and \\ are the escapes the alphabet *)
(* can form, a raw newline ends no literal, and only white space may stand *)
(* between two literals.  [ok, val]: whether the text is well formed, and  *)
(* the string it denotes.                                                  *)
(***************************************************************************)
RECURSIVE CDecodeFrom(_, _, _)
CDecodeFrom(text, mode, acc) ==
    IF text = <<>> THEN [ok |-> mode = "out", val |-> acc]
    ELSE LET c == Head(text)
             rest == Tail(text)
         IN CASE mode = "out" ->
                   IF c = QUOTE THEN CDecodeFrom(rest, "in", acc)
                   ELSE IF c \in Whitespace THEN CDecodeFrom(rest, "out", acc)
                   ELSE [ok |-> FALSE, val |-> acc]
              [] mode = "in" ->
                   IF c = QUOTE THEN CDecodeFrom(rest, "out", acc)
                   ELSE IF c = BSLASH THEN CDecodeFrom(rest, "esc", acc)
                   ELSE IF c = NL THEN [ok |-> FALSE, val |-> acc]
                   ELSE CDecodeFrom(rest, "in", Append(acc, c))
              [] mode = "esc" ->
                   IF c = "n" THEN CDecodeFrom(rest, "in", Append(acc, NL))
                   ELSE IF c = QUOTE THEN CDecodeFrom(rest, "in", Append(acc, QUOTE))
                   ELSE IF c = BSLASH THEN CDecodeFrom(rest, "in", Append(acc, BSLASH))
                   ELSE [ok |-> FALSE, val |-> acc]

\* The string a literal written as "<text>" denotes.
CDecode(text) == CDecodeFrom(<<QUOTE>> \o text \o <<QUOTE>>, "out", <<>>)

\* Every string literal of the generated tables is well formed.
Compiles(code) ==
    /\ \A i \in 1..Len(code.help_files) :
          code.help_files[i].filename.null \/ CDecode(code.help_files[i].filename.text).ok
    /\ \A i \in 1..Len(code.ini_arrays) : \A j \in 1..Len(code.ini_arrays[i].entries) :
          LET ie == code.ini_arrays[i].entries[j] IN
          /\ ie.section.null \/ CDecode(ie.section.text).ok
          /\ ie.content.null \/ CDecode(ie.content.text).ok

(***************************************************************************)
(* opal_show_help_get_content, the function of the generated text.         *)
(***************************************************************************)
NotFound == [kind |-> "NULL", val |-> <<>>]

NotCompiled == [kind |-> "invalid", val |-> <<>>]

EntriesOf(code, fe) ==
    code.ini_arrays[CHOOSE i \in 1..Len(code.ini_arrays) :
                        code.ini_arrays[i].name = fe.entries.text].entries

RECURSIVE ScanEntries(_, _, _)
ScanEntries(entries, j, topic) ==
    IF entries[j].section.null THEN NotFound
    ELSE IF CDecode(entries[j].section.text).val = topic
    THEN [kind |-> "str", val |-> CDecode(entries[j].content.text).val]
    ELSE ScanEntries(entries, j + 1, topic)

RECURSIVE ScanFiles(_, _, _, _)
ScanFiles(code, i, filename, topic) ==
    IF code.help_files[i].filename.null THEN NotFound
    ELSE IF CDecode(code.help_files[i].filename.text).val = filename
    THEN LET r == ScanEntries(EntriesOf(code, code.help_files[i]), 1, topic) IN
         IF r # NotFound THEN r ELSE ScanFiles(code, i + 1, filename, topic)
    ELSE ScanFiles(code, i + 1, filename, topic)

opal_show_help_get_content(code, filename, topic) ==
    IF Compiles(code) THEN ScanFiles(code, 1, filename, topic) ELSE NotCompiled

(***************************************************************************)
(* State.  The files: fs maps each file's path to its lines, unreadable    *)
(* holds the paths open() fails on, root is --root, out_file is what the   *)
(* --out path holds.  The run: pc is the place in main, and the locals of  *)
(* find_help_files, parse_ini_files and main follow.  run counts the       *)
(* invocations; out_before, prev_paths, prev_code and prev_status record   *)
(* the output path at the start of the run and the previous run's results. *)
(* lookup is the last call of the generated function on the output file.   *)
(***************************************************************************)
VARIABLES fs, unreadable, root, out_file,
          pc, run, exit_status, writes,
          walk_stack, walked, help_files,
          file_paths, parse_i, line_no, parse_st, data,
          c_code,
          out_before, prev_paths, prev_code, prev_status,
          lookup

vars == <<fs, unreadable, root, out_file, pc, run, exit_status, writes,
          walk_stack, walked, help_files, file_paths, parse_i, line_no,
          parse_st, data, c_code, out_before, prev_paths, prev_code,
          prev_status, lookup>>

env == <<fs, unreadable, root>>

NoFile == [exists |-> FALSE, text |-> <<>>]

\* open(args.out, "w") followed by f.write(c_code)
WrittenAppending(old, code) == [exists |-> TRUE, text |-> old.text \o <<code>>]

Written(old, code) == [exists |-> TRUE, text |-> <<code>>]

NoLookup == [called |-> FALSE, filename |-> <<>>, topic |-> <<>>, result |-> NotFound]

FilesIn(d) == {p.file : p \in {q \in DOMAIN fs : q.dir = DirPath(d)}}

(***************************************************************************)
(* Inputs.  Three families of trees: many placements of files over the     *)
(* directories under each root; one help file with every text of up to     *)
(* MaxLines lines; and trees under src/ with an unreadable file or an      *)
(* older output file.                                                      *)
(***************************************************************************)
FileSets == {{}, {HelpA, HelpB}, {NoteTxt, HelpC}}

DirOf(path) == CHOOSE d \in DirIds : DirPath(d) = path.dir

\* The text of a file of the tree families: one section, naming its directory.
TreeText(path) == << <<"[", "s", "]">>, <<"i", "n", SPACE, Digit(DirOf(path))>> >>

LineSet ==
    { <<SPACE>>,
      <<SPACE, "#", "c">>,
      <<"[", "s", "]">>,
      <<SPACE, "[", "t", "]">>,
      <<SPACE, "a">>,
      <<"b", QUOTE>>,
      <<BSLASH, "n">> }

RECURSIVE SeqsUpTo(_, _)
SeqsUpTo(S, n) ==
    IF n = 0 THEN {<<>>}
    ELSE LET shorter == SeqsUpTo(S, n - 1) IN
         shorter \cup {Append(t, x) : t \in shorter, x \in S}

PathsOf(placement) == UNION {{PathJoin(d, f) : f \in placement[d]} : d \in DirIds}

Fresh ==
    /\ pc = "start"
    /\ run = 1
    /\ exit_status = "running"
    /\ writes = 0
    /\ walk_stack = <<>>
    /\ walked = {}
    /\ help_files = <<>>
    /\ file_paths = <<>>
    /\ parse_i = 1
    /\ line_no = 1
    /\ parse_st = ParseStart
    /\ data = <<>>
    /\ c_code = NoCode
    /\ out_before = out_file
    /\ prev_paths = <<>>
    /\ prev_code = NoCode
    /\ prev_status = "running"
    /\ lookup = NoLookup

InitTree ==
    /\ root \in {1, 2, 3}
    /\ \E placement \in [DirIds -> FileSets] :
          fs = [p \in PathsOf(placement) |-> TreeText(p)]
    /\ unreadable = {}
    /\ out_file = NoFile
    /\ Fresh

InitText ==
    /\ root = 3
    /\ \E text \in SeqsUpTo(LineSet, MaxLines) :
          fs = [p \in {PathJoin(3, HelpA)} |-> text]
    /\ unreadable = {}
    /\ out_file = NoFile
    /\ Fresh

InitMain ==
    /\ root = 1
    /\ \E placement \in [DirIds -> FileSets] :
          /\ \A d \in DirIds \ {1, 3} : placement[d] = {}
          /\ fs = [p \in PathsOf(placement) |-> TreeText(p)]
    /\ unreadable \in {{}} \cup {{p} : p \in DOMAIN fs}
    /\ out_file \in {NoFile, [exists |-> TRUE, text |-> <<StaleCode>>]}
    /\ Fresh

Init == InitTree \/ InitText \/ InitMain

(***************************************************************************)
(* find_help_files                                                         *)
(***************************************************************************)
\* main calls find_help_files(args.root): help_files = [], os.walk(root) starts
FindCall ==
    /\ pc = "start"
    /\ pc' = "walk"
    /\ walk_stack' = <<root>>
    /\ walked' = {}
    /\ help_files' = <<>>
    /\ UNCHANGED <<env, out_file, run, exit_status, writes, file_paths, parse_i,
                   line_no, parse_st, data, c_code, out_before, prev_paths,
                   prev_code, prev_status, lookup>>

\* One iteration of the os.walk loop: the next directory is scanned (in an
\* order the file system chooses), skip_dirs are removed from dirs, the
\* matching files are appended, and the dirs left are walked next, in order.
WalkIter ==
    /\ pc = "walk"
    /\ walk_stack # <<>>
    /\ LET root_dir == Head(walk_stack) IN
       \E dirs \in Orders(SubDirs(root_dir)), files \in Orders(FilesIn(root_dir)) :
          /\ walked' = walked \cup {root_dir}
          /\ help_files' = help_files \o FoundIn(root_dir, files)
          /\ walk_stack' = PruneDirs(dirs) \o Tail(walk_stack)
    /\ UNCHANGED <<env, out_file, pc, run, exit_status, writes, file_paths, parse_i,
                   line_no, parse_st, data, c_code, out_before, prev_paths,
                   prev_code, prev_status, lookup>>

\* return help_files; main goes on to parse_ini_files(file_paths): data = {}
FindReturn ==
    /\ pc = "walk"
    /\ walk_stack = <<>>
    /\ file_paths' = help_files
    /\ parse_i' = 1
    /\ data' = <<>>
    /\ pc' = "parse"
    /\ UNCHANGED <<env, out_file, run, exit_status, writes, walk_stack, walked,
                   help_files, line_no, parse_st, c_code, out_before, prev_paths,
                   prev_code, prev_status, lookup>>

(***************************************************************************)
(* parse_ini_files                                                         *)
(***************************************************************************)
\* sections = {}; current_section = None; open(file_path) succeeds
OpenFile ==
    /\ pc = "parse"
    /\ parse_i <= Len(file_paths)
    /\ file_paths[parse_i] \notin unreadable
    /\ parse_st' = ParseStart
    /\ line_no' = 1
    /\ pc' = "lines"
    /\ UNCHANGED <<env, out_file, run, exit_status, writes, walk_stack, walked,
                   help_files, file_paths, parse_i, data, c_code, out_before,
                   prev_paths, prev_code, prev_status, lookup>>

OpenFailSkipsFile ==
    /\ pc = "parse"
    /\ parse_i <= Len(file_paths)
    /\ file_paths[parse_i] \in unreadable
    /\ parse_i' = parse_i + 1
    /\ UNCHANGED <<env, out_file, pc, run, exit_status, writes, walk_stack, walked,
                   help_files, file_paths, line_no, parse_st, data, c_code,
                   out_before, prev_paths, prev_code, prev_status, lookup>>

\* open(file_path) raises; nothing catches it: the interpreter exits with 1
OpenFail ==
    /\ pc = "parse"
    /\ parse_i <= Len(file_paths)
    /\ file_paths[parse_i] \in unreadable
    /\ pc' = "failed"
    /\ exit_status' = "exit 1"
    /\ UNCHANGED <<env, out_file, run, writes, walk_stack, walked, help_files,
                   file_paths, parse_i, line_no, parse_st, data, c_code,
                   out_before, prev_paths, prev_code, prev_status, lookup>>

\* One iteration of "for line in file"
ParseStep ==
    /\ pc = "lines"
    /\ line_no <= Len(fs[file_paths[parse_i]])
    /\ parse_st' = ParseLine(parse_st, fs[file_paths[parse_i]][line_no])
    /\ line_no' = line_no + 1
    /\ UNCHANGED <<env, out_file, pc, run, exit_status, writes, walk_stack, walked,
                   help_files, file_paths, parse_i, data, c_code, out_before,
                   prev_paths, prev_code, prev_status, lookup>>

StoreFileKeepFirst(d, file_path, sections) ==
    DictSetKeepFirst(d, Basename(file_path), sections)

\* data[os.path.basename(file_path)] = sections
StoreFile(d, file_path, sections) == DictSet(d, Basename(file_path), sections)

\* The file is exhausted and closed; its sections are stored
ParseStore ==
    /\ pc = "lines"
    /\ line_no > Len(fs[file_paths[parse_i]])
    /\ data' = StoreFile(data, file_paths[parse_i], parse_st.sections)
    /\ parse_i' = parse_i + 1
    /\ pc' = "parse"
    /\ UNCHANGED <<env, out_file, run, exit_status, writes, walk_stack, walked,
                   help_files, file_paths, line_no, parse_st, c_code, out_before,
                   prev_paths, prev_code, prev_status, lookup>>

(***************************************************************************)
(* main, after the parse                                                   *)
(***************************************************************************)
\* return data; c_code = generate_c_code(parsed_data)
Generate ==
    /\ pc = "parse"
    /\ parse_i > Len(file_paths)
    /\ c_code' = GenerateCCode(data)
    /\ pc' = "compare"
    /\ UNCHANGED <<env, out_file, run, exit_status, writes, walk_stack, walked,
                   help_files, file_paths, parse_i, line_no, parse_st, data,
                   out_before, prev_paths, prev_code, prev_status, lookup>>

SameAsExisting == out_file.exists /\ out_file.text = <<c_code>>

\* The output exists and holds c_code: exit(0)
ExitUnchanged ==
    /\ pc = "compare"
    /\ SameAsExisting
    /\ pc' = "done"
    /\ exit_status' = "exit 0"
    /\ UNCHANGED <<env, out_file, run, writes, walk_stack, walked, help_files,
                   file_paths, parse_i, line_no, parse_st, data, c_code,
                   out_before, prev_paths, prev_code, prev_status, lookup>>

\* The output is missing or differs: it is opened for writing and written
WriteOut ==
    /\ pc = "compare"
    /\ ~SameAsExisting
    /\ out_file' = Written(out_file, c_code)
    /\ writes' = writes + 1
    /\ pc' = "done"
    /\ exit_status' = "exit 0"
    /\ UNCHANGED <<env, run, walk_stack, walked, help_files, file_paths, parse_i,
                   line_no, parse_st, data, c_code, out_before, prev_paths,
                   prev_code, prev_status, lookup>>

(***************************************************************************)
(* The surroundings: the program that compiled the output file calls the   *)
(* generated function, and the build runs the script again on the same     *)
(* files.                                                                  *)
(***************************************************************************)
QueryFiles == {HelpA, HelpB}

QueryTopics == {<<"s">>, <<"t">>, <<"x">>}

Lookup ==
    /\ pc = "done"
    /\ ~lookup.called
    /\ \E filename \in QueryFiles, topic \in QueryTopics :
          lookup' = [called |-> TRUE, filename |-> filename, topic |-> topic,
                     result |-> opal_show_help_get_content(out_file.text[1], filename, topic)]
    /\ UNCHANGED <<env, out_file, pc, run, exit_status, writes, walk_stack, walked,
                   help_files, file_paths, parse_i, line_no, parse_st, data, c_code,
                   out_before, prev_paths, prev_code, prev_status>>

Rerun ==
    /\ pc \in {"done", "failed"}
    /\ run < MaxRuns
    /\ run' = run + 1
    /\ out_before' = out_file
    /\ prev_paths' = file_paths
    /\ prev_code' = c_code
    /\ prev_status' = exit_status
    /\ pc' = "start"
    /\ exit_status' = "running"
    /\ writes' = 0
    /\ walk_stack' = <<>>
    /\ walked' = {}
    /\ help_files' = <<>>
    /\ file_paths' = <<>>
    /\ parse_i' = 1
    /\ line_no' = 1
    /\ parse_st' = ParseStart
    /\ data' = <<>>
    /\ c_code' = NoCode
    /\ lookup' = NoLookup
    /\ UNCHANGED <<env, out_file>>

Next ==
    \/ FindCall
    \/ WalkIter
    \/ FindReturn
    \/ OpenFile
    \/ OpenFail
    \/ ParseStep
    \/ ParseStore
    \/ Generate
    \/ ExitUnchanged
    \/ WriteOut
    \/ Lookup
    \/ Rerun

Spec == Init /\ [][Next]_vars

(***************************************************************************)
(* What the properties below are stated with.  These read the input files  *)
(* directly; none of them uses the parser.                                 *)
(***************************************************************************)
Max(S) == CHOOSE x \in S : \A y \in S : y <= x

Min(S) == CHOOSE x \in S : \A y \in S : x <= y

Headers(text) == {i \in 1..Len(text) : IsHeader(Strip(text[i]))}

HeadersNamed(text, s) == {i \in Headers(text) : HeaderName(Strip(text[i])) = s}

FirstHeader(text) == IF Headers(text) = {} THEN Len(text) + 1 ELSE Min(Headers(text))

\* The lines between the last [s] header and the next header that are not
\* blank and not comments: as they stand in the file (raw), or trimmed.
RECURSIVE ContentOf(_, _)
ContentOf(lines, raw) ==
    IF lines = <<>> THEN <<>>
    ELSE (IF IsSkipped(Strip(Head(lines))) THEN <<>>
          ELSE IF raw THEN <<Head(lines)>> ELSE <<Strip(Head(lines))>>)
         \o ContentOf(Tail(lines), raw)

LinesAfterLast(text, s, raw) ==
    LET last == Max(HeadersNamed(text, s))
        later == {i \in Headers(text) : i > last}
        stop == IF later = {} THEN Len(text) + 1 ELSE Min(later)
    IN ContentOf(SubSeq(text, last + 1, stop - 1), raw)

PathsNamed(f) == {i \in 1..Len(file_paths) : Basename(file_paths[i]) = f}

LastNamed(f) == file_paths[Max(PathsNamed(f))]

ExpectedLookup(f, s) ==
    IF PathsNamed(f) = {} THEN NotFound
    ELSE IF HeadersNamed(fs[LastNamed(f)], s) = {} THEN NotFound
    ELSE [kind |-> "str", val |-> Join(<<NL>>, LinesAfterLast(fs[LastNamed(f)], s, FALSE))]

ParseDone == pc \in {"compare", "done"}

\* C1: every call of the generated lookup on the written output returns the
\* content accumulated after the last [s] header of the file with base name
\* f, and NULL when no such file was parsed or it has no section s.
C1_LookupReturnsContent ==
    lookup.called => lookup.result = ExpectedLookup(lookup.filename, lookup.topic)

\* C2: for every section content the parser hands to the renderer, the
\* escaped content read back as adjacent C string literals is the content.
C2_EscapeRoundTrip ==
    ParseDone =>
        \A i \in 1..Len(data) : \A j \in 1..Len(data[i].val) :
            LET content == Join(<<NL>>, data[i].val[j].val) IN
            CDecode(CEscape(content)) = [ok |-> TRUE, val |-> content]

\* C3: a second run on unchanged inputs computes the text of the first run,
\* writes nothing, exits with status 0 and leaves the output file as it was.
C3_SecondRunIsNoOp ==
    (run >= 2 /\ prev_status = "exit 0" /\ pc = "done") =>
        /\ c_code = prev_code
        /\ writes = 0
        /\ exit_status = "exit 0"
        /\ out_file = out_before

\* The directory components of a path that lie below --root.
BelowRoot(dir) == {dir[k] : k \in (Len(DirPath(root)) + 1)..Len(dir)}

StackDirs == {walk_stack[k] : k \in 1..Len(walk_stack)}

\* The sections of a file, read off its lines: each header name with the
\* trimmed lines that follow its last header.
SectionsOf(text) ==
    {[key |-> HeaderName(Strip(text[i])),
      val |-> LinesAfterLast(text, HeaderName(Strip(text[i])), FALSE)] : i \in Headers(text)}

Entries(d) == {d[i] : i \in 1..Len(d)}

\* C4 as stated: no returned path has an excluded directory name anywhere
\* in it, whatever the root.
C4_NoExcludedNameInPath ==
    \A i \in 1..Len(help_files) : \A k \in 1..Len(help_files[i].dir) :
        help_files[i].dir[k] \notin skip_dirs

\* C4 amended: no returned path has an excluded directory name below the
\* root, no directory at or under an excluded directory below the root is
\* scanned or queued, and every table of the output is rendered from a
\* returned file.
C4_NoExcludedNameBelowRoot ==
    /\ \A i \in 1..Len(help_files) : BelowRoot(help_files[i].dir) \cap skip_dirs = {}
    /\ \A d \in walked \cup StackDirs : BelowRoot(DirPath(d)) \cap skip_dirs = {}
    /\ ParseDone =>
          \A i \in 1..Len(c_code.ini_arrays) :
             \E j \in 1..Len(file_paths) :
                /\ BelowRoot(file_paths[j].dir) \cap skip_dirs = {}
                /\ c_code.help_files[i].filename = Lit(Basename(file_paths[j]))
                /\ Cardinality(SectionsOf(fs[file_paths[j]])) = Len(data[i].val)
                /\ \A e \in SectionsOf(fs[file_paths[j]]) :
                      \E n \in 1..Len(data[i].val) :
                         c_code.ini_arrays[i].entries[n] = IniEntry(e.key, e.val)

\* C4 witness: the walk from src/ has ended with files returned, while
\* help files lie under src/3rd-party/pmix/ and under src/opal/.git/.
C4_Witness ==
    /\ pc = "done"
    /\ root = 1
    /\ PathJoin(4, HelpA) \in DOMAIN fs
    /\ PathJoin(5, HelpA) \in DOMAIN fs
    /\ PathJoin(2, HelpB) \in DOMAIN fs
    /\ Len(file_paths) >= 2
    /\ walked = {1, 3}

\* C5: a run that meets a file it cannot open ends with a non-zero status
\* and the output path as it was when the run began, and the run reaches
\* rendering and writing only when every located file could be opened.
C5_OpenFailureLeavesOutput ==
    /\ pc = "failed" =>
          /\ exit_status = "exit 1"
          /\ out_file = out_before
          /\ writes = 0
          /\ c_code = NoCode
    /\ (\E i \in 1..Len(file_paths) : file_paths[i] \in unreadable) =>
          /\ pc \notin {"compare", "done"}
          /\ out_file = out_before
          /\ writes = 0
    /\ ParseDone => parse_i = Len(file_paths) + 1

\* C5 witness: the second located file could not be opened; the run has
\* failed after parsing the first, with an older output file in place.
C5_Witness ==
    /\ pc = "failed"
    /\ parse_i = 2
    /\ Len(data) = 1
    /\ out_file = [exists |-> TRUE, text |-> <<StaleCode>>]

\* C6: when a file has been read, each section holds the lines that followed
\* its last header (blank lines and comments left out), in order, each as it
\* stood in the file before white space was trimmed.
C6_LinesKeptUntrimmed ==
    (pc = "lines" /\ line_no > Len(fs[file_paths[parse_i]])) =>
        \A j \in 1..Len(parse_st.sections) :
            parse_st.sections[j].val =
                LinesAfterLast(fs[file_paths[parse_i]], parse_st.sections[j].key, TRUE)

\* C7: while only lines before the first header have been read nothing is
\* accumulated; when a file has been read its sections are those its
\* headers open, holding only lines after them; and a file without a header
\* has an entry with no sections, rendered as { NULL, NULL } alone.
C7_LinesBeforeFirstHeaderDropped ==
    /\ pc = "lines" =>
          LET text == fs[file_paths[parse_i]] IN
          /\ line_no <= FirstHeader(text) => parse_st = ParseStart
          /\ line_no > Len(text) => Entries(parse_st.sections) = SectionsOf(text)
    /\ ParseDone =>
          \A i \in 1..Len(file_paths) :
             LET f == Basename(file_paths[i]) IN
             Headers(fs[LastNamed(f)]) = {} =>
                \E n \in 1..Len(data) :
                   /\ data[n] = [key |-> f, val |-> <<>>]
                   /\ c_code.help_files[n] =
                         [filename |-> Lit(f), entries |-> Lit(IniArrayName(n - 1))]
                   /\ c_code.ini_arrays[n] =
                         [name |-> IniArrayName(n - 1), entries |-> <<IniSentinel>>]

\* C7 witness: a file of stray text and a comment, without a header, has
\* been rendered.
C7_Witness ==
    /\ pc = "done"
    /\ Len(file_paths) = 1
    /\ fs[file_paths[1]] = << <<SPACE, "a">>, <<SPACE, "#", "c">>, <<"b", QUOTE>> >>
    /\ c_code.ini_arrays[1].entries = <<IniSentinel>>

\* C7 witness of the other case: text stood before the first header and the
\* section after it holds only what followed.
C7_WitnessOrphan ==
    /\ pc = "done"
    /\ Len(file_paths) = 1
    /\ fs[file_paths[1]] = << <<SPACE, "a">>, <<"[", "s", "]">>, <<"b", QUOTE>> >>
    /\ data[1].val = <<[key |-> <<"s">>, val |-> << <<"b", QUOTE>> >>]>>

\* C8: after a run that ended with status 0 the output file holds exactly
\* the text rendered from the files located and parsed in that run.
C8_OutputIsRenderedText ==
    pc = "done" =>
        /\ exit_status = "exit 0"
        /\ c_code = GenerateCCode(data)
        /\ \A i \in 1..Len(data) :
              Entries(data[i].val) = SectionsOf(fs[LastNamed(data[i].key)])
        /\ out_file = [exists |-> TRUE, text |-> <<c_code>>]

\* C8 witness: the output path held an older text and has been overwritten.
C8_Witness ==
    /\ pc = "done"
    /\ out_before = [exists |-> TRUE, text |-> <<StaleCode>>]
    /\ writes = 1
    /\ Len(data) >= 1
    /\ out_file.text = <<c_code>>

\* C9: once the files are parsed, each base name among the located files has
\* exactly one entry in the corpus and in the generated table, holding the
\* sections of the file with that base name that was processed last.
C9_LastFileWins ==
    ParseDone =>
        \A i \in 1..Len(file_paths) :
           LET f == Basename(file_paths[i]) IN
           /\ Cardinality({n \in 1..Len(data) : data[n].key = f}) = 1
           /\ Cardinality({n \in 1..Len(c_code.help_files) :
                              c_code.help_files[n].filename = Lit(f)}) = 1
           /\ Entries(DictGet(data, f)) = SectionsOf(fs[LastNamed(f)])
           /\ \A n \in 1..Len(data) :
                 data[n].key = f =>
                    c_code.ini_arrays[n].entries = IniEntries(DictGet(data, f))

\* C9 witness: two located files in different directories share a base
\* name and differ in content; the run is complete.
C9_Witness ==
    /\ pc = "done"
    /\ \E i, j \in 1..Len(file_paths) :
          /\ i < j
          /\ Basename(file_paths[i]) = Basename(file_paths[j])
          /\ file_paths[i].dir # file_paths[j].dir
          /\ fs[file_paths[i]] # fs[file_paths[j]]
          /\ Len(data) < Len(file_paths)

\* C10: on the same tree, every run's find_help_files returns the sequence
\* of paths the run before it returned.
C10_SameOrderEveryRun ==
    (run >= 2 /\ pc \notin {"start", "walk"}) => file_paths = prev_paths

=============================================================================
